---- MODULE Spec2Model ----
(***************************************************************************)
(* Model of the showtime collector bms4.py: the hard-timeout wrapper, the  *)
(* thread-local identity, the payload parser, dedupe, the summary rollup   *)
(* and the per-venue loop that drives them.                                *)
(*                                                                         *)
(* Conventions.  Python lists are sequences, dicts are functions/records   *)
(* (a missing key is a key outside DOMAIN), JSON null is the string Null.  *)
(* Raw numeric fields of a payload are string literals; int() and float()  *)
(* are the tables IntOf / FloatOf and raise on any other literal.  Money   *)
(* is counted in thousandths of a currency unit, occupancy in hundredths   *)
(* of a percent, so that round(x, 2) is a real rounding.                   *)
(***************************************************************************)
EXTENDS Integers, Sequences, FiniteSets, TLC

\* ------------------------------------------------------------------ bounds
\* Number of venue codes in venues4.json.
NumVenues == 2
\* Longest record list the pipeline-only specification starts from.
MaxRows == 3
\* Longest list of show times in a generated child event.
MaxShows == 2

\* --------------------------------------------------------------- constants
DATE_CODE == "20261103"
OTHER_DATE == "20261102"
Null == "<null>"
EmptyDict == <<>>

\* dict.get(key, default)
Get(d, k, dflt) == IF k \in DOMAIN d THEN d[k] ELSE dflt

\* venues4.json: venue code -> {City, State}; iteration order is 1..NumVenues.
\* The second venue carries no State key.
venues ==
  [v \in 1..NumVenues |->
     IF v = 2 THEN [City |-> "Pune"]
     ELSE [City |-> "Mumbai", State |-> "Maharashtra"]]

\* ------------------------------------------------------------ conversions
\* int(x) on the literals the model uses; anything else raises ValueError
\* (TypeError for null).
IntLiterals == {"0", "2", "10", "60", "100"}
IsIntLiteral(s) == s \in IntLiterals
IntOf(s) ==
  CASE s = "0" -> 0
    [] s = "2" -> 2
    [] s = "10" -> 10
    [] s = "60" -> 60
    [] s = "100" -> 100

\* float(x), in thousandths.
FloatLiterals == {"0", "200", "150.5", "99.995", "33.333"}
IsFloatLiteral(s) == s \in FloatLiterals
FloatOf(s) ==
  CASE s = "0" -> 0
    [] s = "200" -> 200000
    [] s = "150.5" -> 150500
    [] s = "99.995" -> 99995
    [] s = "33.333" -> 33333

\* str.strip()
Strip(s) ==
  CASE s = " " -> ""
    [] s = " 2D " -> "2D"
    [] s = "Hindi " -> "Hindi"
    [] OTHER -> s

\* str(x)
StrOf(v) == IF v = Null THEN "None" ELSE v

\* Nearest integer to n/d for d > 0, ties to even.
RoundDiv(n, d) ==
  LET q == n \div d
      r == n - q * d
  IN  IF 2 * r < d THEN q
      ELSE IF 2 * r > d THEN q + 1
      ELSE IF q % 2 = 0 THEN q ELSE q + 1

\* round(x, 2) of an amount in thousandths: a multiple of 10.
Round2(x) == 10 * RoundDiv(x, 10)

\* calc_occupancy, in hundredths of a percent.
calc_occupancy(sold, total) ==
  IF total # 0 THEN RoundDiv(10000 * sold, total) ELSE 0

\* ------------------------------------------------------------------ parser
\* The seat/price literals of one category convert, or int()/float() raises.
CategoryRaises(cat) ==
  \/ ~IsIntLiteral(Get(cat, "MaxSeats", "0"))
  \/ ~IsIntLiteral(Get(cat, "SeatsAvail", "0"))
  \/ ~IsFloatLiteral(Get(cat, "CurPrice", "0"))

\* The loop over sh["Categories"]: total, avail, sold, gross.
RECURSIVE SumCategories(_)
SumCategories(cats) ==
  IF cats = <<>>
  THEN [total |-> 0, avail |-> 0, sold |-> 0, gross |-> 0]
  ELSE LET n == Len(cats)
           acc == SumCategories(SubSeq(cats, 1, n - 1))
           cat == cats[n]
           seats == IntOf(Get(cat, "MaxSeats", "0"))
           free == IntOf(Get(cat, "SeatsAvail", "0"))
           price == FloatOf(Get(cat, "CurPrice", "0"))
       IN  [total |-> acc.total + seats,
            avail |-> acc.avail + free,
            sold |-> acc.sold + (seats - free),
            gross |-> acc.gross + (seats - free) * price]

\* sh.get("Attributes", "") or ""
AudiOf(sh) ==
  LET a == Get(sh, "Attributes", "")
  IN  IF a = Null \/ a = "" THEN "" ELSE a

\* x.strip() or "UNKNOWN"
OrUnknown(s) == IF Strip(s) = "" THEN "UNKNOWN" ELSE Strip(s)

\* The record appended for one show time.
ShowRecord(sh, title, dim, lang, venue) ==
  LET c == SumCategories(Get(sh, "Categories", <<>>))
  IN  [movie |-> title,
       venue |-> Get(venue, "VenueName", ""),
       address |-> Get(venue, "VenueAdd", ""),
       language |-> lang,
       dimension |-> dim,
       chain |-> Get(venue, "VenueCompName", "Unknown"),
       time |-> Get(sh, "ShowTime", ""),
       audi |-> AudiOf(sh),
       session_id |-> StrOf(Get(sh, "SessionId", "")),
       totalSeats |-> c.total,
       available |-> c.avail,
       sold |-> c.sold,
       gross |-> Round2(c.gross)]

\* Variant: no date filter.
InScope_any(sh) == TRUE

\* A show time is kept when its date code is the target date.
InScope(sh) == Get(sh, "ShowDateCode", Null) = DATE_CODE

RECURSIVE ShowRows(_, _, _, _, _)
ShowRows(shows, title, dim, lang, venue) ==
  IF shows = <<>> THEN <<>>
  ELSE (IF InScope(Head(shows))
        THEN <<ShowRecord(Head(shows), title, dim, lang, venue)>>
        ELSE <<>>)
       \o ShowRows(Tail(shows), title, dim, lang, venue)

RECURSIVE ChildRows(_, _, _)
ChildRows(children, title, venue) ==
  IF children = <<>> THEN <<>>
  ELSE LET ch == Head(children)
           dim == OrUnknown(Get(ch, "EventDimension", ""))
           lang == OrUnknown(Get(ch, "EventLanguage", ""))
       IN  ShowRows(Get(ch, "ShowTimes", <<>>), title, dim, lang, venue)
           \o ChildRows(Tail(children), title, venue)

RECURSIVE EventRows(_, _)
EventRows(events, venue) ==
  IF events = <<>> THEN <<>>
  ELSE LET ev == Head(events)
       IN  ChildRows(Get(ev, "ChildEvents", <<>>),
                     Get(ev, "EventTitle", "Unknown"), venue)
           \o EventRows(Tail(events), venue)

\* parse_payload(data) when nothing in it raises.
parse_payload(data) ==
  LET sd == Get(data, "ShowDetails", <<>>)
  IN  IF sd = <<>> THEN <<>>
      ELSE EventRows(Get(sd[1], "Event", <<>>), Get(sd[1], "Venues", EmptyDict))

\* parse_payload(data) raises: a null dimension/language meets .strip(), or a
\* category of an in-scope show time meets int()/float() with a non-numeric
\* literal.
ParseRaises(data) ==
     /\ Get(data, "ShowDetails", <<>>) # <<>>
     /\ LET events == Get(Get(data, "ShowDetails", <<>>)[1], "Event", <<>>)
        IN  \E e \in DOMAIN events :
              LET children == Get(events[e], "ChildEvents", <<>>)
              IN  \E c \in DOMAIN children :
                    \/ Get(children[c], "EventDimension", "") = Null
                    \/ Get(children[c], "EventLanguage", "") = Null
                    \/ LET shows == Get(children[c], "ShowTimes", <<>>)
                       IN  \E s \in DOMAIN shows :
                             /\ InScope(shows[s])
                             /\ LET cats == Get(shows[s], "Categories", <<>>)
                                IN  \E k \in DOMAIN cats : CategoryRaises(cats[k])

\* ------------------------------------------------------------------ dedupe
\* Variant: the key without the auditorium.
DedupeKey_noaudi(r) == <<r.venue, r.time, r.session_id>>

DedupeKey(r) == <<r.venue, r.time, r.session_id, r.audi>>

\* The loop of dedupe: `out` and `seen` after the first n rows.
RECURSIVE DedupeLoop(_, _)
DedupeLoop(rows, n) ==
  IF n = 0 THEN [out |-> <<>>, seen |-> {}]
  ELSE LET prev == DedupeLoop(rows, n - 1)
           key == DedupeKey(rows[n])
       IN  IF key \in prev.seen THEN prev
           ELSE [out |-> Append(prev.out, rows[n]),
                 seen |-> prev.seen \cup {key}]

\* Variant: the loop starts at the second row.
dedupe_skipfirst(rows) ==
  IF rows = <<>> THEN <<>> ELSE DedupeLoop(Tail(rows), Len(rows) - 1).out

dedupe(rows) == DedupeLoop(rows, Len(rows)).out

\* ----------------------------------------------------------------- summary
\* if occ >= 98: housefull += 1 / elif occ >= 50: fastfilling += 1
IsHousefull(occ) == occ >= 9800

\* Variant: `if` in place of `elif`.
IsFastfilling_if(occ) == occ >= 5000

IsFastfilling(occ) == occ < 9800 /\ occ >= 5000

\* The lines every bucket shares: venues.add, shows, gross, sold, totalSeats
\* and the fill-level counters.
AddShow(b, r) ==
  LET occ == calc_occupancy(r.sold, r.totalSeats)
  IN  [b EXCEPT !.venues = @ \cup {r.venue},
                !.shows = @ + 1,
                !.gross = @ + r.gross,
                !.sold = @ + r.sold,
                !.totalSeats = @ + r.totalSeats,
                !.housefull = IF IsHousefull(occ) THEN @ + 1 ELSE @,
                !.fastfilling = IF IsFastfilling(occ) THEN @ + 1 ELSE @]

EmptyCounts ==
  [venues |-> {}, shows |-> 0, gross |-> 0, sold |-> 0, totalSeats |-> 0,
   fastfilling |-> 0, housefull |-> 0]

\* A freshly inserted movie entry; the three sub-dicts keep insertion order
\* and are sequences of buckets that carry their own key.
NewMovie ==
  [shows |-> 0, gross |-> 0, sold |-> 0, totalSeats |-> 0,
   venues |-> {}, cities |-> {}, fastfilling |-> 0, housefull |-> 0,
   details |-> <<>>, Language_details |-> <<>>, Format_details |-> <<>>]

NewCity(r) == [city |-> r.city, state |-> r.state] @@ EmptyCounts
NewLanguage(r) == [language |-> r.language] @@ EmptyCounts
NewFormat(r) == [dimension |-> r.dimension] @@ EmptyCounts

\* Variant: only the bucket inserted last is looked at.
CityIndex_last(ds, r) ==
  IF ds # <<>> /\ ds[Len(ds)].city = r.city /\ ds[Len(ds)].state = r.state
  THEN Len(ds)
  ELSE 0

\* Position of the bucket with the record's key, 0 when absent.
CityIndex(ds, r) ==
  IF \E k \in DOMAIN ds : ds[k].city = r.city /\ ds[k].state = r.state
  THEN CHOOSE k \in DOMAIN ds : ds[k].city = r.city /\ ds[k].state = r.state
  ELSE 0
LanguageIndex(ds, r) ==
  IF \E k \in DOMAIN ds : ds[k].language = r.language
  THEN CHOOSE k \in DOMAIN ds : ds[k].language = r.language
  ELSE 0
FormatIndex(ds, r) ==
  IF \E k \in DOMAIN ds : ds[k].dimension = r.dimension
  THEN CHOOSE k \in DOMAIN ds : ds[k].dimension = r.dimension
  ELSE 0

\* -------- MOVIE --------
UpdateMovie(m, r) ==
  LET occ == calc_occupancy(r.sold, r.totalSeats)
  IN  [m EXCEPT !.shows = @ + 1,
                !.gross = @ + r.gross,
                !.sold = @ + r.sold,
                !.totalSeats = @ + r.totalSeats,
                !.venues = @ \cup {r.venue},
                !.cities = @ \cup {r.city},
                !.housefull = IF IsHousefull(occ) THEN @ + 1 ELSE @,
                !.fastfilling = IF IsFastfilling(occ) THEN @ + 1 ELSE @]

\* Variant: a new city bucket is inserted without counting its first show.
UpdateCity_dropfirst(ds, r) ==
  LET k == CityIndex(ds, r)
  IN  IF k = 0 THEN Append(ds, NewCity(r))
      ELSE [ds EXCEPT ![k] = AddShow(@, r)]

\* -------- CITY --------
UpdateCity(ds, r) ==
  LET k == CityIndex(ds, r)
  IN  IF k = 0 THEN Append(ds, AddShow(NewCity(r), r))
      ELSE [ds EXCEPT ![k] = AddShow(@, r)]

\* -------- LANGUAGE --------
UpdateLanguage(ds, r) ==
  LET k == LanguageIndex(ds, r)
  IN  IF k = 0 THEN Append(ds, AddShow(NewLanguage(r), r))
      ELSE [ds EXCEPT ![k] = AddShow(@, r)]

\* -------- FORMAT --------
UpdateFormat(ds, r) ==
  LET k == FormatIndex(ds, r)
  IN  IF k = 0 THEN Append(ds, AddShow(NewFormat(r), r))
      ELSE [ds EXCEPT ![k] = AddShow(@, r)]

\* One pass of the body of `for r in detailed`.
FoldRecord(sm, r) ==
  LET m0 == IF r.movie \in DOMAIN sm THEN sm[r.movie] ELSE NewMovie
      m1 == UpdateMovie(m0, r)
      m2 == [m1 EXCEPT !.details = UpdateCity(@, r),
                       !.Language_details = UpdateLanguage(@, r),
                       !.Format_details = UpdateFormat(@, r)]
  IN  [t \in DOMAIN sm \cup {r.movie} |-> IF t = r.movie THEN m2 ELSE sm[t]]

\* A sub-bucket as written to final_summary: the key fields stay, the venue
\* set becomes its size, gross is rounded, occupancy is derived.
FinalBucket(b) ==
  [k \in (DOMAIN b \ {"venues", "gross"}) |-> b[k]]
  @@ [venues |-> Cardinality(b.venues),
      gross |-> Round2(b.gross),
      occupancy |-> calc_occupancy(b.sold, b.totalSeats)]

FinalMovie(m) ==
  [shows |-> m.shows,
   gross |-> Round2(m.gross),
   sold |-> m.sold,
   totalSeats |-> m.totalSeats,
   venues |-> Cardinality(m.venues),
   cities |-> Cardinality(m.cities),
   fastfilling |-> m.fastfilling,
   housefull |-> m.housefull,
   occupancy |-> calc_occupancy(m.sold, m.totalSeats),
   City_details |-> [k \in DOMAIN m.details |-> FinalBucket(m.details[k])],
   Language_details |->
     [k \in DOMAIN m.Language_details |-> FinalBucket(m.Language_details[k])],
   Format_details |->
     [k \in DOMAIN m.Format_details |-> FinalBucket(m.Format_details[k])]]

\* The loop `for movie, m in summary.items()`.
FinalSummary(sm) == [t \in DOMAIN sm |-> FinalMovie(sm[t])]

\* ---------------------------------------------------------------- payloads
Cat(seats, free, price) ==
  [MaxSeats |-> seats, SeatsAvail |-> free, CurPrice |-> price]

Show(dc, tm, sid, cats) ==
  [ShowDateCode |-> dc, ShowTime |-> tm, SessionId |-> sid, Categories |-> cats]

\* One venue with a repeated show time, an out-of-date show time, padded
\* strings, and an event whose child lacks dimension, attributes and seats.
PayloadPVR ==
  [ShowDetails |-> <<
    [Venues |-> [VenueName |-> "PVR", VenueAdd |-> "MG Road",
                 VenueCompName |-> "PVR"],
     Event |-> <<
       [EventTitle |-> "M1",
        ChildEvents |-> <<
          [EventDimension |-> " 2D ", EventLanguage |-> "Hindi ",
           ShowTimes |-> <<
             Show(DATE_CODE, "10:00 AM", "s1", <<Cat("100", "2", "200")>>)
               @@ [Attributes |-> "AUDI 1"],
             Show(DATE_CODE, "10:00 AM", "s1", <<Cat("100", "60", "200")>>)
               @@ [Attributes |-> "AUDI 1"],
             Show(OTHER_DATE, "11:00 PM", "s0", <<Cat("10", "0", "200")>>)
           >>]>>],
       [EventTitle |-> "M2",
        ChildEvents |-> <<
          [EventLanguage |-> " ",
           ShowTimes |-> <<[ShowDateCode |-> DATE_CODE, SessionId |-> "s2"]>>]
        >>]>>]>>]

\* A second answer naming the same venue: the first show time of PayloadPVR
\* seen again with other seat counts, and a show with two categories.
PayloadPVRLater ==
  [ShowDetails |-> <<
    [Venues |-> [VenueName |-> "PVR"],
     Event |-> <<
       [EventTitle |-> "M1",
        ChildEvents |-> <<
          [EventDimension |-> "3D", EventLanguage |-> "English",
           ShowTimes |-> <<
             Show(DATE_CODE, "10:00 AM", "s1", <<Cat("100", "100", "200")>>)
               @@ [Attributes |-> "AUDI 1"],
             Show(DATE_CODE, "01:00 PM", "s3",
                  <<Cat("60", "10", "150.5"), Cat("10", "0", "99.995")>>)
               @@ [Attributes |-> Null]
           >>]>>]>>]>>]

PayloadEmpty == [ShowDetails |-> <<>>]

\* A seat count that is not a number.
PayloadBad ==
  [ShowDetails |-> <<
    [Venues |-> [VenueName |-> "INOX"],
     Event |-> <<
       [EventTitle |-> "M1",
        ChildEvents |-> <<
          [EventDimension |-> "2D", EventLanguage |-> "Hindi",
           ShowTimes |-> <<
             Show(DATE_CODE, "10:00 AM", "s9", <<Cat("N/A", "2", "200")>>)
           >>]>>]>>]>>]

\* What r.json() may hand back for a venue.
Payloads == {PayloadPVR, PayloadPVRLater, PayloadEmpty, PayloadBad}

\* Show-time entries for the parser: one category, three categories with
\* prices of three decimals and a null attribute, no category, no key but
\* the date and a null session, categories that lack numeric fields, more
\* seats free than there are, another date (and a seat count that is not a
\* number), no date, a price that is not a number.
ShowUniverse ==
  { Show(DATE_CODE, "10:00 AM", "s1", <<Cat("100", "2", "200")>>)
      @@ [Attributes |-> "AUDI 1"],
    Show(DATE_CODE, "01:00 PM", "s2",
         <<Cat("60", "10", "150.5"), Cat("10", "0", "99.995"),
           Cat("2", "0", "33.333")>>)
      @@ [Attributes |-> Null],
    [ShowDateCode |-> DATE_CODE, SessionId |-> "s3", Categories |-> <<>>,
     Attributes |-> ""],
    [ShowDateCode |-> DATE_CODE, SessionId |-> Null],
    Show(DATE_CODE, "04:00 PM", "s5",
         <<[MaxSeats |-> "10"], [SeatsAvail |-> "2", CurPrice |-> "200"],
           [AreaCatCode |-> "GOLD"]>>),
    Show(DATE_CODE, "07:00 PM", "s6", <<Cat("10", "60", "200")>>),
    Show(OTHER_DATE, "10:00 AM", "s7", <<Cat("N/A", "0", "200")>>),
    [ShowTime |-> "10:00 AM", SessionId |-> "s8",
     Categories |-> <<Cat("10", "0", "200")>>],
    Show(DATE_CODE, "10:00 PM", "s9", <<Cat("10", "2", "free")>>) }

\* The format and language keys of a child event: padded, absent, blank,
\* null.
ChildUniverse ==
  { [EventDimension |-> " 2D ", EventLanguage |-> "Hindi "],
    [EventCode |-> "ET1"],
    [EventDimension |-> "", EventLanguage |-> " "],
    [EventDimension |-> "3D", EventLanguage |-> Null] }

\* A venue's answer with two events: the first has a child event with keys
\* ch and show times shows, followed by a second child event of two show
\* times; the second has one child event.
MkPayload(ch, shows) ==
  [ShowDetails |-> <<
    [Venues |-> [VenueName |-> "PVR", VenueAdd |-> "MG Road",
                 VenueCompName |-> "PVR"],
     Event |-> <<
       [EventTitle |-> "M1",
        ChildEvents |-> <<
          ch @@ [ShowTimes |-> shows],
          [EventDimension |-> "3D", EventLanguage |-> "English",
           ShowTimes |-> <<
             Show(DATE_CODE, "09:00 AM", "s0", <<Cat("2", "2", "0")>>),
             [ShowDateCode |-> DATE_CODE, ShowTime |-> "11:00 PM",
              SessionId |-> "s10"]>>]>>],
       [EventTitle |-> "M2",
        ChildEvents |-> <<
          [EventDimension |-> "2D", EventLanguage |-> "Hindi",
           ShowTimes |-> <<
             Show(DATE_CODE, "10:00 AM", "s1", <<Cat("100", "60", "200")>>)
               @@ [Attributes |-> "AUDI 1"]>>]>>]>>]>>]

BoundedSeq(S, n) == UNION {[1..m -> S] : m \in 0..n}

\* The payloads parse_payload is applied to.
ParserInputs ==
  Payloads \cup
  {MkPayload(ch, shows) :
     ch \in ChildUniverse, shows \in BoundedSeq(ShowUniverse, MaxShows)}

\* What the body of fetch_api_raw may raise: "Blocked / HTML", or whatever
\* the scraper raises (connection error, its own API_TIMEOUT read timeout).
FetchErrors == {"RuntimeError", "ConnectionError"}

\* Variant: every row tagged with the city and state of the first venue.
Tag_firstvenue(r, vcode) ==
  r @@ [city |-> Get(venues[1], "City", "Unknown"),
        state |-> Get(venues[1], "State", "Unknown"),
        source |-> "BMS",
        date |-> DATE_CODE]

\* The four tags the loop adds to each parsed row.
Tag(r, vcode) ==
  r @@ [city |-> Get(venues[vcode], "City", "Unknown"),
        state |-> Get(venues[vcode], "State", "Unknown"),
        source |-> "BMS",
        date |-> DATE_CODE]

TagAll(rows, vcode) == [n \in DOMAIN rows |-> Tag(rows[n], vcode)]

\* ------------------------------------------------------------------- state
VARIABLES
  pc,            \* where the main thread is
  i,             \* position of the venue loop (enumerate(venues, 1))
  tstate,        \* per call: the thread hard_timeout started for it
  result,        \* per call: the wrapper's `result` dict, <<>> or <<value>>
  error,         \* per call: the wrapper's `error` dict, <<>> or <<exception>>
  thread_local,  \* per thread: thread_local.identity, 0 when the attribute is unset
  ident,         \* per fetch thread: the local `ident` of fetch_api_raw, 0 before
  created,       \* Identity() constructions so far; the n-th instance is n
  resets,        \* reset_identity() calls so far
  all_rows,      \* the accumulated rows
  detailed,      \* dedupe(all_rows)
  k,             \* position of the summary loop
  summary,       \* the rollup being built
  final_summary, \* the rollup as written
  detailed_file, \* DETAILED_FILE: <<>> until written, then <<content>>
  summary_file,  \* SUMMARY_FILE: <<>> until written, then <<content>>
  attempts,      \* history: fetch_api_raw calls per venue
  outcome,       \* history: how each wrapper call ended
  opresult,      \* history: how each wrapped operation itself ended
  aliveAtJoin,   \* history: per call, the thread was running when join returned
  aliveAtCheck,  \* history: per call, what t.is_alive() answered
  fresh,         \* history: per fetch thread, get_identity constructed an instance
  origin         \* history: the venue each row of all_rows came from

vars ==
  <<pc, i, tstate, result, error, thread_local, ident, created, resets,
    all_rows, detailed, k, summary, final_summary, detailed_file,
    summary_file, attempts, outcome, opresult, aliveAtJoin, aliveAtCheck,
    fresh, origin>>

Calls == 1..NumVenues
MainThread == 0
Threads == {MainThread} \cup Calls

\* Variant: the identity kept in one module-level attribute.
ThreadLocalSlot_shared(thread) == MainThread

\* threading.local(): each thread sees its own attributes.
ThreadLocalSlot(thread) == thread

\* Variant: `result` and `error` created once, in decorator.
ResultSlot_shared(call) == MainThread

\* `result` and `error` are created inside wrapper: one pair per call.
ResultSlot(call) == call

NoOutcome == [kind |-> "pending", err |-> "", val |-> <<>>]
Returned(v) == [kind |-> "value", err |-> "", val |-> <<v>>]
ReturnedNone == [kind |-> "none", err |-> "", val |-> <<>>]
Raised(e) == [kind |-> "raise", err |-> e, val |-> <<>>]

\* Variant: wrapper without the is_alive test.
hard_timeout_noalive(alive, res, err) ==
  IF err # <<>> THEN Raised(err[1])
  ELSE IF res # <<>> THEN Returned(res[1])
  ELSE ReturnedNone

\* The end of wrapper, after t.join(seconds).
hard_timeout(alive, res, err) ==
  IF alive THEN Raised("TimeoutError")
  ELSE IF err # <<>> THEN Raised(err[1])
  ELSE IF res # <<>> THEN Returned(res[1])
  ELSE ReturnedNone

\* The try block raises: the wrapper raised, or parse_payload did (on the
\* None of an empty result dict, or on the payload).
TryRaises(out) ==
  \/ out.kind \in {"raise", "none"}
  \/ out.kind = "value" /\ ParseRaises(out.val[1])

\* Variant: t.join() with no timeout.
join_forever(ended, elapsed) == ended

\* t.join(seconds) may return: the thread has ended, or the seconds elapsed.
join(ended, elapsed) == ended \/ elapsed

\* Variant: the loop steps over every other venue.
NextIndex_skip(idx) == idx + 2

\* for i, vcode in enumerate(venues, 1)
NextIndex(idx) == idx + 1

InitHistory ==
  /\ attempts = [v \in Calls |-> 0]
  /\ outcome = [v \in Calls |-> NoOutcome]
  /\ opresult = [v \in Calls |-> NoOutcome]
  /\ aliveAtJoin = [v \in Calls |-> FALSE]
  /\ aliveAtCheck = [v \in Calls |-> FALSE]
  /\ fresh = [v \in Calls |-> FALSE]

InitThreads ==
  /\ tstate = [v \in Calls |-> "idle"]
  /\ result = [v \in Threads |-> <<>>]
  /\ error = [v \in Threads |-> <<>>]
  /\ thread_local = [t \in Threads |-> 0]
  /\ ident = [v \in Calls |-> 0]
  /\ created = 0
  /\ resets = 0

InitOutput ==
  /\ detailed = <<>>
  /\ k = 1
  /\ summary = EmptyDict
  /\ final_summary = EmptyDict
  /\ detailed_file = <<>>
  /\ summary_file = <<>>

\* After `all_rows = []`.
Init ==
  /\ pc = "loop"
  /\ i = 1
  /\ all_rows = <<>>
  /\ origin = <<>>
  /\ InitThreads
  /\ InitOutput
  /\ InitHistory

\* ------------------------------------------------------------ main thread
\* fetch_api_raw(vcode) enters wrapper: t.start(), then t.join(seconds) waits.
StartFetch ==
  /\ pc = "loop"
  /\ i <= NumVenues
  /\ tstate' = [tstate EXCEPT ![i] = "started"]
  /\ attempts' = [attempts EXCEPT ![i] = @ + 1]
  /\ pc' = "join"
  /\ UNCHANGED <<i, result, error, thread_local, ident, created, resets,
                 all_rows, detailed, k, summary, final_summary, detailed_file,
                 summary_file, outcome, opresult, aliveAtJoin, aliveAtCheck, fresh, origin>>

\* t.join(seconds) returns: the thread ended, or the seconds elapsed.
JoinReturns ==
  /\ pc = "join"
  /\ \E elapsed \in BOOLEAN : join(tstate[i] = "done", elapsed)
  /\ aliveAtJoin' = [aliveAtJoin EXCEPT ![i] = (tstate[i] # "done")]
  /\ pc' = "check"
  /\ UNCHANGED <<i, tstate, result, error, thread_local, ident, created,
                 resets, all_rows, detailed, k, summary, final_summary,
                 detailed_file, summary_file, attempts, outcome, opresult,
                 fresh, origin, aliveAtCheck>>

\* What wrapper does after t.join(seconds) for the current call.
CallOutcome ==
  hard_timeout(tstate[i] # "done", result[ResultSlot(i)], error[ResultSlot(i)])

\* parse_payload over the payloads of the model, computed once.
ParsedPayloads == [p \in ParserInputs |-> parse_payload(p)]

\* The rows the loop body extends all_rows with: none when the try block
\* raises, else the parsed rows, tagged.
VenueRows(out, vcode) ==
  IF TryRaises(out) THEN <<>> ELSE TagAll(ParsedPayloads[out.val[1]], vcode)

\* The rest of wrapper (is_alive, error, result) and the rest of the loop
\* body: parse, tag and extend, or reset_identity() in the except branch.
ProcessVenue ==
  /\ pc = "check"
  /\ outcome' = [outcome EXCEPT ![i] = CallOutcome]
  /\ aliveAtCheck' = [aliveAtCheck EXCEPT ![i] = (tstate[i] # "done")]
  /\ all_rows' = all_rows \o VenueRows(CallOutcome, i)
  /\ origin' = origin \o [n \in DOMAIN VenueRows(CallOutcome, i) |-> i]
  /\ thread_local' =
       IF TryRaises(CallOutcome)
       THEN [thread_local EXCEPT ![ThreadLocalSlot(MainThread)] = 0]
       ELSE thread_local
  /\ resets' = IF TryRaises(CallOutcome) THEN resets + 1 ELSE resets
  /\ i' = NextIndex(i)
  /\ pc' = "loop"
  /\ UNCHANGED <<tstate, result, error, ident, created, detailed, k, summary,
                 final_summary, detailed_file, summary_file, attempts,
                 opresult, aliveAtJoin, fresh>>

\* detailed = dedupe(all_rows); summary = {}
Dedupe ==
  /\ pc = "loop"
  /\ i > NumVenues
  /\ detailed' = dedupe(all_rows)
  /\ summary' = EmptyDict
  /\ k' = 1
  /\ pc' = "summary"
  /\ UNCHANGED <<i, tstate, result, error, thread_local, ident, created,
                 resets, all_rows, final_summary, detailed_file, summary_file,
                 attempts, outcome, opresult, aliveAtJoin, aliveAtCheck, fresh, origin>>

\* One iteration of `for r in detailed`.
SummaryStep ==
  /\ pc = "summary"
  /\ k <= Len(detailed)
  /\ summary' = FoldRecord(summary, detailed[k])
  /\ k' = k + 1
  /\ UNCHANGED <<pc, i, tstate, result, error, thread_local, ident, created,
                 resets, all_rows, detailed, final_summary, detailed_file,
                 summary_file, attempts, outcome, opresult, aliveAtJoin, aliveAtCheck,
                 fresh, origin>>

\* The FINAL SUMMARY loop.
Finalize ==
  /\ pc = "summary"
  /\ k > Len(detailed)
  /\ final_summary' = FinalSummary(summary)
  /\ pc' = "save_detailed"
  /\ UNCHANGED <<i, tstate, result, error, thread_local, ident, created,
                 resets, all_rows, detailed, k, summary, detailed_file,
                 summary_file, attempts, outcome, opresult, aliveAtJoin, aliveAtCheck,
                 fresh, origin>>

\* Variant: the accumulated rows are written, not the deduplicated ones.
SaveDetailed_all_rows ==
  /\ pc = "save_detailed"
  /\ detailed_file' = <<all_rows>>
  /\ pc' = "save_summary"
  /\ UNCHANGED <<i, tstate, result, error, thread_local, ident, created,
                 resets, all_rows, detailed, k, summary, final_summary,
                 summary_file, attempts, outcome, opresult, aliveAtJoin, aliveAtCheck,
                 fresh, origin>>

\* json.dump(detailed, ...)
SaveDetailed ==
  /\ pc = "save_detailed"
  /\ detailed_file' = <<detailed>>
  /\ pc' = "save_summary"
  /\ UNCHANGED <<i, tstate, result, error, thread_local, ident, created,
                 resets, all_rows, detailed, k, summary, final_summary,
                 summary_file, attempts, outcome, opresult, aliveAtJoin, aliveAtCheck,
                 fresh, origin>>

\* json.dump(final_summary, ...), then the DONE line.
SaveSummary ==
  /\ pc = "save_summary"
  /\ summary_file' = <<final_summary>>
  /\ pc' = "done"
  /\ UNCHANGED <<i, tstate, result, error, thread_local, ident, created,
                 resets, all_rows, detailed, k, summary, final_summary,
                 detailed_file, attempts, outcome, opresult, aliveAtJoin, aliveAtCheck,
                 fresh, origin>>

\* ----------------------------------------------------------- fetch threads
\* ident = get_identity(), in the thread the wrapper started.
ThreadGetIdentity(t) ==
  /\ tstate[t] = "started"
  /\ LET slot == ThreadLocalSlot(t)
     IN  IF thread_local[slot] = 0
         THEN /\ created' = created + 1
              /\ thread_local' = [thread_local EXCEPT ![slot] = created + 1]
              /\ ident' = [ident EXCEPT ![t] = created + 1]
              /\ fresh' = [fresh EXCEPT ![t] = TRUE]
         ELSE /\ ident' = [ident EXCEPT ![t] = thread_local[slot]]
              /\ UNCHANGED <<created, thread_local, fresh>>
  /\ tstate' = [tstate EXCEPT ![t] = "fetching"]
  /\ UNCHANGED <<pc, i, result, error, resets, all_rows, detailed, k, summary,
                 final_summary, detailed_file, summary_file, attempts,
                 outcome, opresult, aliveAtJoin, aliveAtCheck, origin>>

\* scraper.get answers with JSON: result["value"] = r.json(); the thread ends.
ThreadReturns(t) ==
  /\ tstate[t] = "fetching"
  /\ \E p \in Payloads :
       /\ result' = [result EXCEPT ![ResultSlot(t)] = <<p>>]
       /\ opresult' = [opresult EXCEPT ![t] = Returned(p)]
  /\ tstate' = [tstate EXCEPT ![t] = "done"]
  /\ UNCHANGED <<pc, i, error, thread_local, ident, created, resets, all_rows,
                 detailed, k, summary, final_summary, detailed_file,
                 summary_file, attempts, outcome, aliveAtJoin, aliveAtCheck, fresh, origin>>

\* The fetch raises: error["err"] = e; the thread ends.
ThreadRaises(t) ==
  /\ tstate[t] = "fetching"
  /\ \E e \in FetchErrors :
       /\ error' = [error EXCEPT ![ResultSlot(t)] = <<e>>]
       /\ opresult' = [opresult EXCEPT ![t] = Raised(e)]
  /\ tstate' = [tstate EXCEPT ![t] = "done"]
  /\ UNCHANGED <<pc, i, result, thread_local, ident, created, resets,
                 all_rows, detailed, k, summary, final_summary, detailed_file,
                 summary_file, attempts, outcome, aliveAtJoin, aliveAtCheck, fresh, origin>>

MainNext ==
  \/ StartFetch
  \/ JoinReturns
  \/ ProcessVenue
  \/ Dedupe
  \/ SummaryStep
  \/ Finalize
  \/ SaveDetailed
  \/ SaveSummary

ThreadNext ==
  \E t \in Calls : ThreadGetIdentity(t) \/ ThreadReturns(t) \/ ThreadRaises(t)

Next == MainNext \/ ThreadNext

Spec == Init /\ [][Next]_vars

\* The main thread has a step to take: it waits only in t.join(seconds), and
\* only for the thread of the current call.
MainCanStep ==
  \/ pc \in {"loop", "check", "summary", "save_detailed", "save_summary"}
  \/ pc = "join" /\ \E elapsed \in BOOLEAN : join(tstate[i] = "done", elapsed)

\* The main thread is never starved; a fetch thread may take for ever.  This
\* is weak fairness of MainNext, written with MainCanStep for ENABLED MainNext
\* (every step of MainNext changes pc, i or k).
MainFairness == []<>(~MainCanStep) \/ []<><<MainNext>>_vars

FairSpec == Spec /\ MainFairness

\* ------------------------------------------- the pipeline on bounded inputs
\* A tagged row as the loop leaves it in all_rows.
Row(movie, venue, tm, sid, audi, city, state, lang, dim, total, free) ==
  [movie |-> movie, venue |-> venue, address |-> "", language |-> lang,
   dimension |-> dim, chain |-> "Unknown", time |-> tm, audi |-> audi,
   session_id |-> sid, totalSeats |-> total, available |-> free,
   sold |-> total - free, gross |-> Round2((total - free) * 200000),
   city |-> city, state |-> state, source |-> "BMS", date |-> DATE_CODE]

\* Rows that share a key and differ elsewhere, keys that differ in one
\* component only, two movies, two cities (one with two states), two
\* languages, two formats, and every fill level including no seats at all
\* and more seats free than there are.
RowUniverse ==
  { Row("M1", "PVR", "10:00 AM", "s1", "", "Mumbai", "Maharashtra",
        "Hindi", "2D", 100, 2),
    Row("M1", "PVR", "10:00 AM", "s1", "", "Mumbai", "Maharashtra",
        "English", "3D", 100, 60),
    Row("M1", "PVR", "10:00 AM", "s1", "AUDI 2", "Mumbai", "Unknown",
        "Hindi", "3D", 100, 40),
    Row("M1", "PVR", "01:00 PM", "s1", "", "Pune", "Maharashtra",
        "UNKNOWN", "UNKNOWN", 0, 0),
    Row("M1", "INOX", "10:00 AM", "s1", "", "Pune", "Maharashtra",
        "Hindi", "2D", 60, 10),
    Row("M2", "INOX", "10:00 AM", "s1", "", "Pune", "Maharashtra",
        "English", "2D", 10, 60),
    Row("M2", "PVR", "10:00 AM", "s2", "", "Mumbai", "Maharashtra",
        "Hindi", "2D", 100, 0),
    Row("M2", "PVR", "10:00 AM", "s2", "AUDI 2", "Mumbai", "Maharashtra",
        "English", "3D", 2, 2) }

\* The state at the end of the venue loop, for every short list of rows.  The
\* threads and the history of the loop play no part from here on and are left
\* as they start.
InitPipe ==
  /\ pc = "loop"
  /\ i = NumVenues + 1
  /\ all_rows \in BoundedSeq(RowUniverse, MaxRows)
  /\ origin = [n \in DOMAIN all_rows |-> 1]
  /\ InitThreads
  /\ InitOutput
  /\ InitHistory

NextPipe == Dedupe \/ SummaryStep \/ Finalize \/ SaveDetailed \/ SaveSummary

SpecPipe == InitPipe /\ [][NextPipe]_vars

\* --------------------------------------------- the parser on bounded inputs
\* The state in which the fetch of the last venue has answered with payload p
\* and t.join has returned, every earlier venue having had an empty answer:
\* the loop body is about to parse p.
AtLastParse(p) ==
  /\ pc = "check"
  /\ i = NumVenues
  /\ all_rows = <<>>
  /\ origin = <<>>
  /\ tstate = [v \in Calls |-> "done"]
  /\ result = [t \in Threads |->
                 IF t = MainThread THEN <<>>
                 ELSE IF t = NumVenues THEN <<p>> ELSE <<PayloadEmpty>>]
  /\ error = [t \in Threads |-> <<>>]
  /\ thread_local = [t \in Threads |-> t]
  /\ ident = [v \in Calls |-> v]
  /\ created = NumVenues
  /\ resets = 0
  /\ attempts = [v \in Calls |-> 1]
  /\ outcome = [v \in Calls |->
                  IF v = NumVenues THEN NoOutcome ELSE Returned(PayloadEmpty)]
  /\ opresult = [v \in Calls |->
                   IF v = NumVenues THEN Returned(p) ELSE Returned(PayloadEmpty)]
  /\ aliveAtJoin = [v \in Calls |-> FALSE]
  /\ aliveAtCheck = [v \in Calls |-> FALSE]
  /\ fresh = [v \in Calls |-> TRUE]
  /\ InitOutput

InitParse == \E p \in ParserInputs : AtLastParse(p)

NextParse ==
  ProcessVenue \/ Dedupe \/ SummaryStep \/ Finalize \/ SaveDetailed
  \/ SaveSummary

SpecParse == InitParse /\ [][NextParse]_vars

\* ================================================================== claims
Processed(v) == outcome[v].kind # "pending"
Failed(v) == Processed(v) /\ TryRaises(outcome[v])
Succeeded(v) == Processed(v) /\ ~TryRaises(outcome[v])
TimedOut(v) == outcome[v] = Raised("TimeoutError")
AllFailed == \A v \in Calls : Failed(v)

\* C1: whatever the fetches do (answer, raise, run past the deadline, never
\* return), the run reaches its end with both files written; and when every
\* venue failed the detailed file holds an empty list and the summary file an
\* empty mapping.
C1_RunCompletes ==
  /\ <>(pc = "done" /\ detailed_file # <<>> /\ summary_file # <<>>)
  /\ [](pc = "done" /\ AllFailed =>
          detailed_file = << <<>> >> /\ summary_file = <<EmptyDict>>)

\* The run ended with every venue failed, one by a raised failure and one by
\* a fetch that has still not returned.
C1_Witness ==
  /\ pc = "done"
  /\ AllFailed
  /\ \E v \in Calls : TimedOut(v) /\ tstate[v] # "done"
  /\ \E v \in Calls : outcome[v] = Raised("RuntimeError")

\* C2: every venue is fetched at most once and in iteration order, all of
\* them by the end of the loop; no row of all_rows comes from a venue whose
\* try block raised, and the written files hold only data of all_rows.
C2_EachVenueOnce ==
  /\ \A v \in Calls : attempts[v] <= 1
  /\ \A v, w \in Calls : attempts[v] = 1 /\ w < v => Processed(w)
  /\ i > NumVenues => \A v \in Calls : attempts[v] = 1 /\ Processed(v)
  /\ \A n \in DOMAIN origin : Succeeded(origin[n])
  /\ pc = "done" =>
       /\ \A n \in DOMAIN detailed_file[1] :
            \E j \in DOMAIN all_rows :
              all_rows[j] = detailed_file[1][n] /\ Succeeded(origin[j])
       /\ \A t \in DOMAIN summary_file[1] :
            \E j \in DOMAIN all_rows : all_rows[j].movie = t

\* The run ended; one venue timed out and its abandoned fetch answered with a
\* payload afterwards, another venue contributed rows.
C2_Witness ==
  /\ pc = "done"
  /\ \E v \in Calls :
       TimedOut(v) /\ tstate[v] = "done" /\ opresult[v].kind = "value"
  /\ \E v \in Calls : Succeeded(v)
  /\ all_rows # <<>>

\* C3 as stated: the call raises Timeout exactly when the operation was still
\* running when the deadline wait (t.join) ended, and otherwise returns the
\* operation's value or re-raises its failure.
C3_AsStated ==
  \A v \in Calls : Processed(v) =>
    /\ aliveAtJoin[v] => TimedOut(v)
    /\ ~aliveAtJoin[v] => outcome[v] = opresult[v]
    /\ outcome[v].kind \in {"value", "raise"}

\* C3 amended: the outcome is decided by t.is_alive(), tested after the wait:
\* still running then, the call raises Timeout; ended by then, the call
\* returns the operation's value or re-raises its failure unchanged.  It
\* returns no value when the operation failed or was running at that test.
C3_OutcomeByIsAlive ==
  \A v \in Calls : Processed(v) =>
    /\ aliveAtCheck[v] => TimedOut(v)
    /\ ~aliveAtCheck[v] =>
         outcome[v] = opresult[v] /\ outcome[v].kind \in {"value", "raise"}
    /\ outcome[v].kind = "value" =>
         ~aliveAtCheck[v] /\ opresult[v] = outcome[v]

\* One call returned a value although its thread was running when the wait
\* ended, and another call raised Timeout for an operation that failed later.
C3_Witness ==
  /\ \E v \in Calls :
       aliveAtJoin[v] /\ ~aliveAtCheck[v] /\ outcome[v].kind = "value"
  /\ \E v \in Calls :
       aliveAtCheck[v] /\ TimedOut(v) /\ opresult[v].kind = "raise"

\* C4: an Identity is constructed only when none is bound: two consecutive
\* fetches with no failure in between use the same instance, and the number
\* of instances is at most 1 plus the number of resets.
C4_IdentityReused ==
  /\ created <= 1 + resets
  /\ \A v \in Calls :
       (v + 1 \in Calls /\ Succeeded(v) /\ ident[v] # 0 /\ ident[v + 1] # 0)
         => ident[v + 1] = ident[v]

\* C5: reset_identity is called once per failed venue and leaves the caller
\* without a bound identity; the fetch for the next venue gets an instance
\* constructed for it, which is not the one the failed fetch used.
C5_FreshAfterFailure ==
  /\ resets = Cardinality({v \in Calls : Failed(v)})
  /\ (\E v \in Calls : Failed(v)) => thread_local[ThreadLocalSlot(MainThread)] = 0
  /\ \A v \in Calls :
       (v + 1 \in Calls /\ Failed(v) /\ ident[v + 1] # 0)
         => /\ fresh[v + 1]
            /\ ident[v + 1] # ident[v]

\* A fetch that had obtained its identity failed, and the next venue's fetch
\* has obtained one too.
C5_Witness ==
  \E v \in Calls :
    /\ v + 1 \in Calls
    /\ Failed(v)
    /\ ident[v] # 0
    /\ ident[v + 1] # 0

\* C6: once a call has raised Timeout, the main thread never waits for the
\* abandoned operation, all_rows holds no row of that venue whatever the
\* operation does later, and every later call ends by its own operation: it
\* raises Timeout or repeats what its own operation returned or raised.
C6_AbandonedDiscarded ==
  \A v \in Calls : TimedOut(v) =>
    /\ \A n \in DOMAIN origin : origin[n] # v
    /\ \A w \in Calls :
         (w > v /\ Processed(w)) => (TimedOut(w) \/ outcome[w] = opresult[w])
    /\ pc # "done" => MainCanStep

\* An abandoned operation ended with a payload after its call raised Timeout,
\* and a later call returned a different payload.
C6_Witness ==
  \E v, w \in Calls :
    /\ v < w
    /\ TimedOut(v)
    /\ opresult[v].kind = "value"
    /\ outcome[w].kind = "value"
    /\ outcome[w] # opresult[v]

\* The identity an execution context holds, 0 for none: the bound one for the
\* main thread, the local `ident` for a fetch thread that is still running.
Holds(ctx) ==
  IF ctx = MainThread THEN thread_local[ThreadLocalSlot(MainThread)]
  ELSE IF tstate[ctx] = "fetching" THEN ident[ctx] ELSE 0

\* C7: no two live execution contexts hold the same Identity instance.
C7_NoSharedIdentity ==
  \A c, d \in Threads :
    (c # d /\ Holds(c) # 0 /\ Holds(d) # 0) => Holds(c) # Holds(d)

\* A fetch abandoned after a timeout and the fetch of a later venue both hold
\* an identity at the same time.
C7_Witness ==
  \E v, w \in Calls :
    /\ v < w
    /\ TimedOut(v)
    /\ Holds(v) # 0
    /\ Holds(w) # 0

\* The composite key of the data model: (venue, time, session_id, audi).
CompositeKey(r) == <<r.venue, r.time, r.session_id, r.audi>>

\* Row n of X is the first of X with its composite key.
IsFirstOfKey(X, n) ==
  \A j \in 1..(n - 1) : CompositeKey(X[j]) # CompositeKey(X[n])

\* The rows of X[1..n] that are first of their key, in the order of X.
RECURSIVE FirstOccurrences(_, _)
FirstOccurrences(X, n) ==
  IF n = 0 THEN <<>>
  ELSE IF IsFirstOfKey(X, n) THEN Append(FirstOccurrences(X, n - 1), X[n])
  ELSE FirstOccurrences(X, n - 1)

Deduped == pc # "loop"

\* C8: dedupe(X) is the subsequence of the first occurrences of each
\* composite key of X: one row per key, every key of X present, each row the
\* earliest of X with its key, in the order of X.
C8_DedupeFirstOccurrences ==
  Deduped =>
    /\ detailed = FirstOccurrences(all_rows, Len(all_rows))
    /\ \A a, b \in DOMAIN detailed :
         a # b => CompositeKey(detailed[a]) # CompositeKey(detailed[b])
    /\ \A n \in DOMAIN all_rows :
         \E a \in DOMAIN detailed :
           CompositeKey(detailed[a]) = CompositeKey(all_rows[n])
    /\ \A a \in DOMAIN detailed :
         \E n \in DOMAIN all_rows :
           IsFirstOfKey(all_rows, n) /\ detailed[a] = all_rows[n]

\* Three rows, the third repeating the key of the first with other content
\* and the second differing from the first in the auditorium only: dedupe
\* kept the first two.
C8_Witness ==
  /\ Deduped
  /\ Len(all_rows) = 3
  /\ CompositeKey(all_rows[1]) = CompositeKey(all_rows[3])
  /\ all_rows[1] # all_rows[3]
  /\ all_rows[2].audi # all_rows[1].audi
  /\ all_rows[2].venue = all_rows[1].venue
  /\ all_rows[2].time = all_rows[1].time
  /\ all_rows[2].session_id = all_rows[1].session_id
  /\ detailed = <<all_rows[1], all_rows[2]>>

\* C9: dedupe applied to its own result changes nothing.
C9_DedupeIdempotent == Deduped => dedupe(detailed) = detailed

\* dedupe dropped a row and kept at least two.
C9_Witness ==
  /\ Deduped
  /\ Len(detailed) < Len(all_rows)
  /\ Len(detailed) >= 2

RECURSIVE SumShows(_)
SumShows(ds) == IF ds = <<>> THEN 0 ELSE ds[1].shows + SumShows(Tail(ds))
RECURSIVE SumSold(_)
SumSold(ds) == IF ds = <<>> THEN 0 ELSE ds[1].sold + SumSold(Tail(ds))
RECURSIVE SumTotalSeats(_)
SumTotalSeats(ds) ==
  IF ds = <<>> THEN 0 ELSE ds[1].totalSeats + SumTotalSeats(Tail(ds))

\* The sub-buckets ds add up to the movie bucket m.
Conserved(m, ds) ==
  /\ SumShows(ds) = m.shows
  /\ SumSold(ds) = m.sold
  /\ SumTotalSeats(ds) = m.totalSeats

\* C10: for every movie, after each folded record and in the final summary,
\* shows, sold and totalSeats summed over the city buckets equal the movie's,
\* and so do the sums over the language buckets and over the format buckets.
C10_BucketSumConservation ==
  /\ \A t \in DOMAIN summary :
       /\ Conserved(summary[t], summary[t].details)
       /\ Conserved(summary[t], summary[t].Language_details)
       /\ Conserved(summary[t], summary[t].Format_details)
  /\ \A t \in DOMAIN final_summary :
       /\ Conserved(final_summary[t], final_summary[t].City_details)
       /\ Conserved(final_summary[t], final_summary[t].Language_details)
       /\ Conserved(final_summary[t], final_summary[t].Format_details)

\* The final summary holds a movie of three shows spread over two cities, two
\* languages and two formats.
C10_Witness ==
  /\ pc = "done"
  /\ \E t \in DOMAIN final_summary :
       /\ final_summary[t].shows = 3
       /\ Len(final_summary[t].City_details) = 2
       /\ Len(final_summary[t].Language_details) = 2
       /\ Len(final_summary[t].Format_details) = 2

\* The bucket of ds picked out by Is, or an empty one when ds has none.
PickBucket(ds, Is(_)) ==
  IF \E n \in DOMAIN ds : Is(ds[n])
  THEN ds[CHOOSE n \in DOMAIN ds : Is(ds[n])]
  ELSE EmptyCounts

\* The four buckets of sm a record r contributes to: movie, city + state,
\* language, format.
BucketsOf(sm, r) ==
  IF r.movie \notin DOMAIN sm
  THEN <<EmptyCounts, EmptyCounts, EmptyCounts, EmptyCounts>>
  ELSE LET m == sm[r.movie]
           IsCity(b) == b.city = r.city /\ b.state = r.state
           IsLanguage(b) == b.language = r.language
           IsFormat(b) == b.dimension = r.dimension
       IN  <<m, PickBucket(m.details, IsCity),
             PickBucket(m.Language_details, IsLanguage),
             PickBucket(m.Format_details, IsFormat)>>

\* Every bucket of sm: the movies and their sub-buckets.
AllBuckets(sm) ==
  UNION {{sm[t]}
         \cup {sm[t].details[n] : n \in DOMAIN sm[t].details}
         \cup {sm[t].Language_details[n] : n \in DOMAIN sm[t].Language_details}
         \cup {sm[t].Format_details[n] : n \in DOMAIN sm[t].Format_details}
         : t \in DOMAIN sm}

\* Folding the record at position k moved the fill-level counters of each of
\* its four buckets as its own occupancy says.
ClassifiedStep ==
  LET r == detailed[k]
      occ == calc_occupancy(r.sold, r.totalSeats)
      before == BucketsOf(summary, r)
      after == BucketsOf(summary', r)
  IN  \A j \in 1..4 :
        /\ after[j].shows = before[j].shows + 1
        /\ after[j].housefull - before[j].housefull
             = (IF occ >= 9800 THEN 1 ELSE 0)
        /\ after[j].fastfilling - before[j].fastfilling
             = (IF occ >= 5000 /\ occ < 9800 THEN 1 ELSE 0)
        /\ (after[j].housefull - before[j].housefull)
             + (after[j].fastfilling - before[j].fastfilling) <= 1

\* C11: each folded record adds one to housefull in each of its four buckets
\* exactly when its occupancy is at least 98, one to fastfilling exactly when
\* its occupancy is at least 50 and below 98, and nothing to either
\* otherwise; it never adds to both, so fastfilling + housefull <= shows in
\* every bucket at all times.
C11_ExclusiveClassification ==
  /\ [][SummaryStep => ClassifiedStep]_vars
  /\ [](\A b \in AllBuckets(summary) : b.fastfilling + b.housefull <= b.shows)

\* A movie bucket that took a housefull show, a fast-filling show and a show
\* that is neither.
C11_Witness ==
  \E t \in DOMAIN summary :
    /\ summary[t].shows = 3
    /\ summary[t].housefull = 1
    /\ summary[t].fastfilling = 1
    /\ Len(summary[t].details) >= 2

\* Every bucket of a written summary: the movies and the entries of their
\* three detail arrays.
FinalBuckets(fs) ==
  UNION {{fs[t]}
         \cup {fs[t].City_details[n] : n \in DOMAIN fs[t].City_details}
         \cup {fs[t].Language_details[n] : n \in DOMAIN fs[t].Language_details}
         \cup {fs[t].Format_details[n] : n \in DOMAIN fs[t].Format_details}
         : t \in DOMAIN fs}

\* C12: in every bucket of the final summary built from what the parser
\* emits, occupancy lies between 0 and 100 when the bucket has seats and is
\* 0 when it has none.
C12_OccupancyBounds ==
  \A b \in FinalBuckets(final_summary) :
    /\ b.totalSeats > 0 => (0 <= b.occupancy /\ b.occupancy <= 10000)
    /\ b.totalSeats = 0 => b.occupancy = 0

\* The summary accumulation and the final summary over a list of records.
RECURSIVE FoldAll(_)
FoldAll(rows) ==
  IF rows = <<>> THEN EmptyDict
  ELSE FoldRecord(FoldAll(SubSeq(rows, 1, Len(rows) - 1)), rows[Len(rows)])

Aggregate(rows) == FinalSummary(FoldAll(rows))

\* The orders of a list.
Reorderings(rows) ==
  {[n \in DOMAIN rows |-> rows[f[n]]] : f \in Permutations(DOMAIN rows)}

Entries(arr) == {arr[n] : n \in DOMAIN arr}

TopLevel(m) ==
  <<m.shows, m.gross, m.sold, m.totalSeats, m.venues, m.cities,
    m.fastfilling, m.housefull, m.occupancy>>

\* Two summaries agree up to the order of the detail arrays.
SameSummary(a, b) ==
  /\ DOMAIN a = DOMAIN b
  /\ \A t \in DOMAIN a :
       /\ TopLevel(a[t]) = TopLevel(b[t])
       /\ Entries(a[t].City_details) = Entries(b[t].City_details)
       /\ Entries(a[t].Language_details) = Entries(b[t].Language_details)
       /\ Entries(a[t].Format_details) = Entries(b[t].Format_details)
       /\ Len(a[t].City_details) = Len(b[t].City_details)
       /\ Len(a[t].Language_details) = Len(b[t].Language_details)
       /\ Len(a[t].Format_details) = Len(b[t].Format_details)

\* C13: the summary written for a list of records with distinct keys is the
\* one every reordering of the list gives: the same movies, the same
\* top-level fields per movie, and the same entries in City_details,
\* Language_details and Format_details.
C13_OrderInvariant ==
  pc = "done" =>
    \A other \in Reorderings(detailed) :
      SameSummary(summary_file[1], Aggregate(other))

\* Three records of one movie whose reversal gives the same summary with the
\* detail arrays in another order.
C13_Witness ==
  /\ pc = "done"
  /\ Len(detailed) = 3
  /\ DOMAIN summary_file[1] = {"M1"}
  /\ LET other == [n \in 1..3 |-> detailed[4 - n]]
     IN  /\ Aggregate(other) # summary_file[1]
         /\ SameSummary(summary_file[1], Aggregate(other))

RECURSIVE Flatten(_)
Flatten(seqs) == IF seqs = <<>> THEN <<>> ELSE Head(seqs) \o Flatten(Tail(seqs))

RECURSIVE SumSeq(_)
SumSeq(ns) == IF ns = <<>> THEN 0 ELSE Head(ns) + SumSeq(Tail(ns))

\* Every show-time entry of a payload, in payload order: event by event,
\* child event by child event.
ShowEntries(p) ==
  IF "ShowDetails" \notin DOMAIN p \/ p.ShowDetails = <<>> THEN <<>>
  ELSE LET evs == Get(p.ShowDetails[1], "Event", <<>>)
           OfChild(ch) == Get(ch, "ShowTimes", <<>>)
           OfEvent(ev) ==
             LET chs == Get(ev, "ChildEvents", <<>>)
             IN  Flatten([c \in DOMAIN chs |-> OfChild(chs[c])])
       IN  Flatten([e \in DOMAIN evs |-> OfEvent(evs[e])])

HasTargetDate(sh) == "ShowDateCode" \in DOMAIN sh /\ sh.ShowDateCode = DATE_CODE

TargetEntries(p) == SelectSeq(ShowEntries(p), HasTargetDate)

\* The numeric fields of a seat category, a missing one counted as zero.
Capacity(cat) == IF "MaxSeats" \in DOMAIN cat THEN IntOf(cat.MaxSeats) ELSE 0
Available(cat) ==
  IF "SeatsAvail" \in DOMAIN cat THEN IntOf(cat.SeatsAvail) ELSE 0
Price(cat) == IF "CurPrice" \in DOMAIN cat THEN FloatOf(cat.CurPrice) ELSE 0

SeatCategories(sh) == IF "Categories" \in DOMAIN sh THEN sh.Categories ELSE <<>>

CapacitySum(sh) ==
  SumSeq([c \in DOMAIN SeatCategories(sh) |-> Capacity(SeatCategories(sh)[c])])
AvailableSum(sh) ==
  SumSeq([c \in DOMAIN SeatCategories(sh) |-> Available(SeatCategories(sh)[c])])
SoldSum(sh) ==
  SumSeq([c \in DOMAIN SeatCategories(sh) |->
            Capacity(SeatCategories(sh)[c]) - Available(SeatCategories(sh)[c])])
RevenueSum(sh) ==
  SumSeq([c \in DOMAIN SeatCategories(sh) |->
            (Capacity(SeatCategories(sh)[c]) - Available(SeatCategories(sh)[c]))
              * Price(SeatCategories(sh)[c])])

\* The payload of the last venue was parsed and the try block did not raise.
LastPayload == result[ResultSlot(NumVenues)][1]
LastParsed == Processed(NumVenues) /\ Succeeded(NumVenues)

\* Records rows are the entries shs, one for one and in order, with the seat
\* sums of each entry.
OneRecordPerEntry(rows, shs) ==
  /\ Len(rows) = Len(shs)
  /\ \A n \in DOMAIN rows :
       /\ rows[n].time = Get(shs[n], "ShowTime", "")
       /\ rows[n].session_id = StrOf(Get(shs[n], "SessionId", ""))
       /\ rows[n].totalSeats = CapacitySum(shs[n])
       /\ rows[n].available = AvailableSum(shs[n])
       /\ rows[n].sold = SoldSum(shs[n])
       /\ SeatCategories(shs[n]) = <<>> =>
            /\ rows[n].totalSeats = 0
            /\ rows[n].available = 0
            /\ rows[n].sold = 0
            /\ rows[n].gross = 0

C15_RecordInvariant ==
  LastParsed =>
    \A n \in DOMAIN all_rows :
      /\ all_rows[n].sold + all_rows[n].available = all_rows[n].totalSeats
      /\ all_rows[n].gross >= 0

\* For each entry of TargetEntries(p), in the same order, the child event it
\* sits in.
TargetChildren(p) ==
  IF "ShowDetails" \notin DOMAIN p \/ p.ShowDetails = <<>> THEN <<>>
  ELSE LET evs == Get(p.ShowDetails[1], "Event", <<>>)
           OfChild(ch) ==
             [s \in DOMAIN SelectSeq(Get(ch, "ShowTimes", <<>>), HasTargetDate)
                |-> ch]
           OfEvent(ev) ==
             LET chs == Get(ev, "ChildEvents", <<>>)
             IN  Flatten([c \in DOMAIN chs |-> OfChild(chs[c])])
       IN  Flatten([e \in DOMAIN evs |-> OfEvent(evs[e])])

\* The upstream field is missing, or empty after trimming.
MissingOrBlank(d, key) == key \notin DOMAIN d \/ Strip(d[key]) = ""

\* C16: in every record the parser emits, dimension, language and audi are
\* "UNKNOWN" whenever the upstream EventDimension, EventLanguage and
\* Attributes is missing or empty after trimming, and none of the three is
\* the empty string.
C16_SentinelStrings ==
  LastParsed =>
    \A n \in DOMAIN all_rows :
      LET ch == TargetChildren(LastPayload)[n]
          sh == TargetEntries(LastPayload)[n]
      IN  /\ MissingOrBlank(ch, "EventDimension") =>
               all_rows[n].dimension = "UNKNOWN"
          /\ MissingOrBlank(ch, "EventLanguage") =>
               all_rows[n].language = "UNKNOWN"
          /\ MissingOrBlank(sh, "Attributes") => all_rows[n].audi = "UNKNOWN"
          /\ all_rows[n].dimension # ""
          /\ all_rows[n].language # ""
          /\ all_rows[n].audi # ""

\* The fetch-level failures: Blocked (RuntimeError), Timeout, NetworkFailure.
FetchFailed(v) ==
  /\ outcome[v].kind = "raise"
  /\ outcome[v].err \in {"RuntimeError", "TimeoutError", "ConnectionError"}

\* C17: parse does not raise on any payload a fetch returned, so a venue is
\* skipped and the identity reset only when its fetch was blocked, timed out
\* or failed on the network.
C17_MalformedNeverFails ==
  /\ \A v \in Calls :
       outcome[v].kind = "value" => ~ParseRaises(outcome[v].val[1])
  /\ \A v \in Calls : Failed(v) => FetchFailed(v)
  /\ resets = Cardinality({v \in Calls : FetchFailed(v)})

VenueCity(v) == IF "City" \in DOMAIN venues[v] THEN venues[v].City ELSE "Unknown"
VenueState(v) ==
  IF "State" \in DOMAIN venues[v] THEN venues[v].State ELSE "Unknown"

\* Row r is the parsed record rec with the four tags of venue v.
TaggedFrom(r, rec, v) ==
  /\ DOMAIN r = DOMAIN rec \cup {"city", "state", "source", "date"}
  /\ \A f \in DOMAIN rec : r[f] = rec[f]
  /\ r.city = VenueCity(v)
  /\ r.state = VenueState(v)
  /\ r.source = "BMS"
  /\ r.date = DATE_CODE

\* Processing venue i left the rows so far in place and added every record
\* parsed from the venue's payload, tagged, or added nothing.
AllOrNothing ==
  LET out == outcome'[i]
      ok == out.kind = "value" /\ ~ParseRaises(out.val[1])
      parsed == IF ok THEN parse_payload(out.val[1]) ELSE <<>>
  IN  /\ Len(all_rows') = Len(all_rows) + Len(parsed)
      /\ SubSeq(all_rows', 1, Len(all_rows)) = all_rows
      /\ \A n \in DOMAIN parsed :
           TaggedFrom(all_rows'[Len(all_rows) + n], parsed[n], i)

\* C18: after a venue is processed the accumulated list is the list before
\* it followed by all records parsed from its payload, each with the venue's
\* city and state, the source tag and the date code, or by nothing when the
\* fetch or the parse failed; earlier rows are unchanged and no row is ever
\* without its tags.
C18_AllOrNothing ==
  /\ [][ProcessVenue => AllOrNothing]_vars
  /\ [](\A n \in DOMAIN all_rows :
          /\ {"city", "state", "source", "date"} \subseteq DOMAIN all_rows[n]
          /\ all_rows[n].city = VenueCity(origin[n])
          /\ all_rows[n].state = VenueState(origin[n]))

\* The first venue added several rows, the second was fetched and failed in
\* the parser, and the rows of the first are all there is.
C18_Witness ==
  /\ Succeeded(1)
  /\ Failed(2)
  /\ outcome[2].kind = "value"
  /\ Len(all_rows) >= 2
  /\ \A n \in DOMAIN all_rows : origin[n] = 1

\* The number of rows of a list that carry a movie title.
RowsOfMovie(rows, title) ==
  Cardinality({n \in DOMAIN rows : rows[n].movie = title})

RECURSIVE SumOfShows(_, _)
SumOfShows(fs, titles) ==
  IF titles = {} THEN 0
  ELSE LET t == CHOOSE x \in titles : TRUE
       IN  fs[t].shows + SumOfShows(fs, titles \ {t})

\* C19: the two files agree: the shows of all movies of the summary add up
\* to the number of detailed records, each movie's shows is the number of
\* detailed records with its title, and the movies of the summary are the
\* titles of the detailed records.
C19_ArtifactsConsistent ==
  pc = "done" =>
    LET recs == detailed_file[1]
        fs == summary_file[1]
    IN  /\ SumOfShows(fs, DOMAIN fs) = Len(recs)
        /\ \A t \in DOMAIN fs : fs[t].shows = RowsOfMovie(recs, t)
        /\ DOMAIN fs = {recs[n].movie : n \in DOMAIN recs}

\* Both files are written, the detailed one shorter than the accumulated
\* list, with two movies of which one has two records.
C19_Witness ==
  /\ pc = "done"
  /\ Len(detailed_file[1]) < Len(all_rows)
  /\ Cardinality(DOMAIN summary_file[1]) = 2
  /\ \E t \in DOMAIN summary_file[1] : summary_file[1][t].shows = 2

\* The wrapper call of venue v is over and the operation it started is still
\* running.
Abandoned(v) == Processed(v) /\ tstate[v] # "done"

\* C20: each wrapper call starts one background operation, and the number of
\* operations left running by calls that are over is at most the number of
\* venues processed so far whose fetch timed out.
C20_AbandonedBounded ==
  /\ \A v \in Calls : attempts[v] = (IF tstate[v] = "idle" THEN 0 ELSE 1)
  /\ \A v \in Calls : Abandoned(v) => TimedOut(v)
  /\ Cardinality({v \in Calls : Abandoned(v)})
       <= Cardinality({v \in Calls : Processed(v) /\ TimedOut(v)})

\* Two fetches timed out; the operation of one is still running, that of the
\* other has ended since.
C20_Witness ==
  \E v, w \in Calls :
    /\ v # w
    /\ TimedOut(v) /\ Abandoned(v)
    /\ TimedOut(w) /\ tstate[w] = "done"

====
